---- MODULE Spec2Model ----
(***************************************************************************)
(* Model of scripts/generate_formula.py: the lockfile parser               *)
(* (parse_requirements), the formula renderer (generate_formula) and the   *)
(* command-line entry point (__main__).                                    *)
(*                                                                         *)
(* A Python str is a sequence of one-character strings, so that rstrip,    *)
(* strip, slicing and the regular expressions act on characters as they    *)
(* do in the code.  A fixed piece of an output template is one element.    *)
(* An optional value (None or a value) is <<>> or <<value>>.               *)
(***************************************************************************)
EXTENDS Integers, Sequences, FiniteSets, TLC

\* ------------------------------------------------------------- bounds
\* Longest lockfile (in lines) whose parse and rendering are explored.
MaxLines == 4
\* Longest lockfile combined with every command line.
MaxArgLines == 1

\* --------------------------------------------------------- characters
LowerSeq == << "a","b","c","d","e","f","g","h","i","j","k","l","m",
               "n","o","p","q","r","s","t","u","v","w","x","y","z" >>
UpperSeq == << "A","B","C","D","E","F","G","H","I","J","K","L","M",
               "N","O","P","Q","R","S","T","U","V","W","X","Y","Z" >>
DigitSeq == << "0","1","2","3","4","5","6","7","8","9" >>

Range(s) == { s[i] : i \in 1..Len(s) }
IndexIn(s, c) == CHOOSE i \in 1..Len(s) : s[i] = c

\* str.rstrip() / str.strip() without an argument strip whitespace.
Whitespace == { " ", "\t", "\n", "\r", "\f" }
\* The character class [a-zA-Z0-9_-] of both package regular expressions.
NameChars == Range(LowerSeq) \cup Range(UpperSeq) \cup Range(DigitSeq) \cup { "_", "-" }
\* The character class [a-f0-9] of the hash regular expression.
HexChars == { "a","b","c","d","e","f" } \cup Range(DigitSeq)
\* The negated class [^ \\] that ends the version: a space or a backslash.
VersionStop == { " ", "\\" }

\* ord(c): the code point Python compares strings by.
Code(c) ==
    IF c \in Range(LowerSeq) THEN 96 + IndexIn(LowerSeq, c)
    ELSE IF c \in Range(UpperSeq) THEN 64 + IndexIn(UpperSeq, c)
    ELSE IF c \in Range(DigitSeq) THEN 47 + IndexIn(DigitSeq, c)
    ELSE CASE c = "\t" -> 9  [] c = "\n" -> 10 [] c = "\f" -> 12 [] c = "\r" -> 13
           [] c = " "  -> 32 [] c = "#"  -> 35 [] c = "-"  -> 45 [] c = "."  -> 46
           [] c = ":"  -> 58 [] c = ";"  -> 59 [] c = "="  -> 61 [] c = ">"  -> 62
           [] c = "\\" -> 92 [] c = "_"  -> 95

\* ------------------------------------------------------------ strings
None == << >>
Some(v) == << v >>
\* Python truthiness of an optional str: None and "" are both false.
Truthy(opt) == opt /= None /\ opt[1] /= << >>

RECURSIVE RStrip(_)
RStrip(s) ==
    IF s /= << >> /\ s[Len(s)] \in Whitespace THEN RStrip(SubSeq(s, 1, Len(s) - 1)) ELSE s

RECURSIVE LStrip(_)
LStrip(s) ==
    IF s /= << >> /\ s[1] \in Whitespace THEN LStrip(Tail(s)) ELSE s

Strip(s) == LStrip(RStrip(s))

StartsWithAt(s, p, i) ==
    /\ i + Len(p) - 1 <= Len(s)
    /\ \A k \in 1..Len(p) : s[i + k - 1] = p[k]

\* The `in` operator on two strings.
Contains(s, p) == \E i \in 1..(Len(s) + 1) : StartsWithAt(s, p, i)

\* Length of the longest run of characters of class cls starting at s[i].
RECURSIVE RunLen(_, _, _)
RunLen(s, i, cls) ==
    IF i <= Len(s) /\ s[i] \in cls THEN 1 + RunLen(s, i + 1, cls) ELSE 0

\* str.lower() and str.replace("-", "_").
Lower(s) == [ i \in 1..Len(s) |->
                IF s[i] \in Range(UpperSeq) THEN LowerSeq[IndexIn(UpperSeq, s[i])] ELSE s[i] ]
ReplaceHyphen(s) == [ i \in 1..Len(s) |-> IF s[i] = "-" THEN "_" ELSE s[i] ]

\* Python's < on two strings: lexicographic by code point, a proper prefix first.
RECURSIVE StrLess(_, _)
StrLess(a, b) ==
    IF b = << >> THEN FALSE
    ELSE IF a = << >> THEN TRUE
    ELSE IF a[1] /= b[1] THEN Code(a[1]) < Code(b[1])
    ELSE StrLess(Tail(a), Tail(b))

\* Python's < on two tuples of strings.
RECURSIVE TupleLess(_, _)
TupleLess(a, b) ==
    IF b = << >> THEN FALSE
    ELSE IF a = << >> THEN TRUE
    ELSE IF a[1] /= b[1] THEN StrLess(a[1], b[1])
    ELSE TupleLess(Tail(a), Tail(b))

\* ------------------------------------------------------ literal texts
EqEq == << "=", "=" >>
HashMarker == << "-","-","h","a","s","h","=" >>
HashPattern == HashMarker \o << "s","h","a","2","5","6",":" >>
EditableLine == << "-","e"," ","." >>
ToolName == << "c","l","a","u","d","e","c","t","l" >>
DefaultVersion == << "0",".","1",".","0" >>
PlaceholderSha == << "PLACEHOLDER_UPDATE_AFTER_FIRST_RELEASE" >>
Placeholder == << "PLACEHOLDER" >>
UsageMessage == << "Usage: generate_formula.py <requirements.txt> [version] [url] [sha256]" >>
NotFoundMessage(path) == << "Error: " >> \o path \o << " not found" >>

\* ------------------------------------------------- parse_requirements
\* re.match(r"^[a-zA-Z0-9_-]", line): the test that makes a line a package line.
IsPackageLine(line) == line /= << >> /\ line[1] \in NameChars

\* re.match(r"^([a-zA-Z0-9_-]+)==([^ \\]+)", line): None, or the groups.  "=" is
\* not a name character, so the greedy name is the whole leading run.
MatchPackage(line) ==
    LET n == RunLen(line, 1, NameChars)
        v == RunLen(line, n + 3, { line[k] : k \in 1..Len(line) } \ VersionStop)
    IN IF n >= 1 /\ StartsWithAt(line, EqEq, n + 1) /\ v >= 1
       THEN Some([ name |-> SubSeq(line, 1, n), version |-> SubSeq(line, n + 3, n + 2 + v) ])
       ELSE None

\* re.search(r"--hash=sha256:([a-f0-9]+)", line): None, or group 1 of the
\* leftmost match.
SearchHash(line) ==
    LET hits == { i \in 1..Len(line) :
                    /\ StartsWithAt(line, HashPattern, i)
                    /\ RunLen(line, i + Len(HashPattern), HexChars) >= 1 }
    IN IF hits = {} THEN None
       ELSE LET i == CHOOSE j \in hits : \A k \in hits : j <= k
                d == i + Len(HashPattern)
            IN Some(SubSeq(line, d, d + RunLen(line, d, HexChars) - 1))

\* line[:-2]: the slice that drops the last two characters.
DropLastTwo(line) == SubSeq(line, 1, Len(line) - 2)

\* "Handle line continuations": if line.endswith("\\"): line = line[:-2].strip()
HandleContinuation(line) ==
    IF line /= << >> /\ line[Len(line)] = "\\" THEN Strip(DropLastTwo(line)) ELSE line

\* The dict is an insertion-ordered sequence of [name, hashes] items.
HasKey(d, k) == \E i \in 1..Len(d) : d[i].name = k
Lookup(d, k) == d[CHOOSE i \in 1..Len(d) : d[i].name = k].hashes

\* packages[k] = v: an existing key keeps its position, a new key goes last.
DictSet(d, k, v) ==
    IF HasKey(d, k)
    THEN [ i \in 1..Len(d) |-> IF d[i].name = k THEN [ name |-> k, hashes |-> v ] ELSE d[i] ]
    ELSE Append(d, [ name |-> k, hashes |-> v ])

\* The locals of parse_requirements before the first line.
ParseStart ==
    [ packages |-> << >>, current_package |-> None, current_hashes |-> << >>,
      version |-> None ]

\* "Save previous package if any": the flush at the head of the package branch.
SavePrevious(st) ==
    IF Truthy(st.current_package)
    THEN [ st EXCEPT !.packages = DictSet(st.packages, st.current_package[1], st.current_hashes),
                     !.current_hashes = << >> ]
    ELSE st

\* One iteration of `for line in f` on the raw line.
ParseStep(st, raw) ==
    LET stripped == RStrip(raw)
        line == HandleContinuation(stripped)
    IN IF stripped = << >> \/ stripped[1] = "#" THEN st
       ELSE IF line = EditableLine THEN st
       ELSE IF IsPackageLine(line)
       THEN LET saved == SavePrevious(st)
                match == MatchPackage(line)
            IN IF match /= None
               THEN [ saved EXCEPT !.current_package = Some(match[1].name),
                                   !.version = Some(match[1].version) ]
               ELSE saved
       ELSE IF Contains(line, HashMarker)
       THEN LET match == SearchHash(line)
            IN IF match /= None
               THEN [ st EXCEPT !.current_hashes = Append(st.current_hashes, match[1]) ]
               ELSE st
       ELSE st

\* "Don't forget the last package": the flush after the loop.  The accumulator
\* is not reset here.
ParseEnd(st) ==
    IF Truthy(st.current_package)
    THEN [ st EXCEPT !.packages = DictSet(st.packages, st.current_package[1], st.current_hashes) ]
    ELSE st

\* parse_requirements on a whole readable file.
RECURSIVE ParseLines(_, _)
ParseLines(st, ls) == IF ls = << >> THEN st ELSE ParseLines(ParseStep(st, Head(ls)), Tail(ls))
ParseRequirements(ls) == ParseEnd(ParseLines(ParseStart, ls)).packages

\* --------------------------------------------------- generate_formula
\* The default download URL of the header, templated from the version.
DefaultUrl(version) ==
    << "https://github.com/carelesslisper/claudectl/releases/download/v" >> \o version
        \o << "/claudectl-" >> \o version \o << ".tar.gz" >>

\* HeaderUrl with `url if url is not None else <default>` for `url or <default>`.
HeaderUrlIfNotNone(version, url) == IF url /= None THEN url[1] ELSE DefaultUrl(version)

\* {url or '<default>'} and {sha256 or '<placeholder>'}: `or` takes the right
\* operand when the left one is None or "".
HeaderUrl(version, url) == IF Truthy(url) THEN url[1] ELSE DefaultUrl(version)
HeaderSha(sha256) == IF Truthy(sha256) THEN sha256[1] ELSE PlaceholderSha

\* Python's < on two (name, hashes) items, as sorted(packages.items()) uses it.
ItemLess(x, y) ==
    IF x.name /= y.name THEN StrLess(x.name, y.name) ELSE TupleLess(x.hashes, y.hashes)

RECURSIVE InsertSorted(_, _)
InsertSorted(sorted, x) ==
    IF sorted = << >> THEN << x >>
    ELSE IF ItemLess(x, Head(sorted)) THEN << x >> \o sorted
    ELSE << Head(sorted) >> \o InsertSorted(Tail(sorted), x)

RECURSIVE SortItems(_)
SortItems(items) ==
    IF items = << >> THEN << >>
    ELSE InsertSorted(SortItems(SubSeq(items, 1, Len(items) - 1)), items[Len(items)])

\* RenderOrder without sorted(): the records in insertion order.
RenderOrderInserted(packages) == packages

\* The order the renderer visits the records in: sorted(packages.items()).
RenderOrder(packages) == SortItems(packages)

\* IsMainPackage on the name as written, not lower-cased.
IsMainPackageAsWritten(pkg_name) == ReplaceHyphen(pkg_name) = ToolName

\* resource_name = pkg_name.lower().replace("-", "_"), and the test that skips
\* the main package itself.
ResourceName(pkg_name) == ReplaceHyphen(Lower(pkg_name))
IsMainPackage(pkg_name) == ResourceName(pkg_name) = ToolName

\* ResourceSha with hashes[-1] for hashes[0].
ResourceShaLast(hashes) == IF hashes /= << >> THEN hashes[Len(hashes)] ELSE Placeholder

\* sha = hashes[0] if hashes else "PLACEHOLDER"
ResourceSha(hashes) == IF hashes /= << >> THEN hashes[1] ELSE Placeholder

\* One resource block of the output.
ResourceBlock(version, item) ==
    [ name   |-> item.name,
      url    |-> << "https://files.pythonhosted.org/packages/" >> \o ReplaceHyphen(item.name)
                    \o << "-" >> \o version \o << ".tar.gz" >>,
      sha256 |-> ResourceSha(item.hashes) ]

\* The body of the `for pkg_name, hashes in ...` loop over the given items.
RECURSIVE ResourceBlocks(_, _)
ResourceBlocks(version, items) ==
    IF items = << >> THEN << >>
    ELSE IF IsMainPackage(Head(items).name) THEN ResourceBlocks(version, Tail(items))
    ELSE << ResourceBlock(version, Head(items)) >> \o ResourceBlocks(version, Tail(items))

\* The formula text by its varying parts: the header's url and sha256 and the
\* resource blocks in order.  The rest of the text is fixed.
GenerateFormula(version, packages, url, sha256) ==
    [ url       |-> HeaderUrl(version, url),
      sha256    |-> HeaderSha(sha256),
      resources |-> ResourceBlocks(version, RenderOrder(packages)) ]

\* ------------------------------------------------------------- state
VARIABLES
    argv,            \* sys.argv
    fkind,           \* what sys.argv[1] names: "absent", "unreadable" or "file"
    lines,           \* the lines of the lockfile
    pc,              \* position of the run
    idx,             \* index of the next line the parse loop reads
    packages,        \* parse_requirements: packages
    current_package, \* parse_requirements: current_package
    current_hashes,  \* parse_requirements: current_hashes
    pkg_version,     \* parse_requirements: version (of the last matched line)
    version,         \* __main__: version
    url,             \* __main__: url
    sha256,          \* __main__: sha256
    formula,         \* __main__: formula (None before generate_formula returns)
    stdout,          \* what print() wrote, in order
    exit_code        \* None while running, then the exit status

vars == << argv, fkind, lines, pc, idx, packages, current_package, current_hashes,
           pkg_version, version, url, sha256, formula, stdout, exit_code >>

parse_vars == << idx, packages, current_package, current_hashes, pkg_version >>
main_vars == << version, url, sha256 >>
input_vars == << argv, fkind, lines >>

\* The parser's locals as the record ParseStep works on.
Locals ==
    [ packages |-> packages, current_package |-> current_package,
      current_hashes |-> current_hashes, version |-> pkg_version ]

SetLocals(st) ==
    /\ packages' = st.packages
    /\ current_package' = st.current_package
    /\ current_hashes' = st.current_hashes
    /\ pkg_version' = st.version

\* ------------------------------------------------------------ inputs
\* The lockfile format: a declaration line is name==version and an ending, a
\* hash line is an indented --hash=sha256:<hex> and an ending.
EndOfLine == << >>
SpaceContinuation == << " ", "\\" >>
DirectContinuation == << "\\" >>
Indent == << " ", " " >>
Declaration(name, ver, ending) == name \o EqEq \o ver \o ending
HashLine(digest, ending) == Indent \o HashPattern \o digest \o ending

NameA == << "a" >>
NameB == << "b" >>
NameC == << "c" >>
NameUpperB == << "B" >>
NameSelf == << "C","l","a","u","d","e","c","t","l" >>
PinnedVersion == << "1" >>
DigestA == << "a", "a" >>
DigestB == << "b", "b" >>
EmptyDigest == << >>
MalformedLine == << "a", ">", "=", "1" >>
CommentLine == << "#", " ", "c" >>

\* Lines of the lockfiles the parser is explored on.
ParsePool ==
    { Declaration(NameA, PinnedVersion, EndOfLine),
      Declaration(NameB, PinnedVersion, SpaceContinuation),
      Declaration(NameC, PinnedVersion, DirectContinuation),
      HashLine(DigestA, EndOfLine),
      HashLine(DigestB, SpaceContinuation),
      MalformedLine,
      CommentLine }

\* Lines of the lockfiles the renderer is explored on.
RenderPool ==
    { Declaration(NameB, PinnedVersion, EndOfLine),
      Declaration(NameA, PinnedVersion, EndOfLine),
      Declaration(NameUpperB, PinnedVersion, EndOfLine),
      Declaration(NameSelf, PinnedVersion, EndOfLine),
      HashLine(DigestA, EndOfLine),
      HashLine(DigestB, EndOfLine),
      HashLine(EmptyDigest, EndOfLine),
      EditableLine }

Files(pool, n) == UNION { [ 1..k -> pool ] : k \in 0..n }

\* Command lines: sys.argv[0], then up to four positional arguments.  An
\* argument may be the empty string.
ProgName == << "generate_formula.py" >>
LockPath == << "requirements.txt" >>
GivenVersion == << "1", ".", "2" >>
OverrideUrl == << "https://example.org/claudectl.tar.gz" >>
OverrideSha == << "c", "0", "f", "f", "e", "e" >>
EmptyStr == << >>
ArgvAll ==
    { << ProgName >>, << ProgName, LockPath >>, << ProgName, LockPath, GivenVersion >> }
    \cup { << ProgName, LockPath, GivenVersion, u >> : u \in { EmptyStr, OverrideUrl } }
    \cup { << ProgName, LockPath, GivenVersion, u, c >> :
             u \in { EmptyStr, OverrideUrl }, c \in { EmptyStr, OverrideSha } }

\* The state when the script starts, on one of the command lines args and, when
\* the path names a readable file, one of the lockfiles files.
InitRun(args, files) ==
    /\ argv \in args
    /\ \/ Len(argv) < 2 /\ fkind = "absent" /\ lines = << >>
       \/ Len(argv) >= 2 /\ fkind \in { "absent", "unreadable" } /\ lines = << >>
       \/ Len(argv) >= 2 /\ fkind = "file" /\ lines \in files
    /\ pc = "start"
    /\ idx = 1
    /\ packages = << >>
    /\ current_package = None
    /\ current_hashes = << >>
    /\ pkg_version = None
    /\ version = None
    /\ url = None
    /\ sha256 = None
    /\ formula = None
    /\ stdout = << >>
    /\ exit_code = None

Init ==
    \/ InitRun(ArgvAll, Files(RenderPool, MaxArgLines))
    \/ InitRun({ << ProgName, LockPath, GivenVersion >> }, Files(RenderPool, MaxLines))

InitParse ==
    \/ InitRun(ArgvAll, Files(ParsePool, MaxArgLines))
    \/ InitRun({ << ProgName, LockPath >> }, Files(ParsePool, MaxLines))

\* ------------------------------------------------------------ __main__
\* Exit that drops the status given to sys.exit.
ExitZero(status) == pc' = "done" /\ exit_code' = Some(0)

\* sys.exit(status), or the end of the script with status 0.
Exit(status) == pc' = "done" /\ exit_code' = Some(status)

\* if len(sys.argv) < 2: print usage; sys.exit(1)
MainUsage ==
    /\ pc = "start"
    /\ Len(argv) < 2
    /\ stdout' = Append(stdout, [ kind |-> "usage", text |-> UsageMessage ])
    /\ Exit(1)
    /\ UNCHANGED << input_vars, parse_vars, main_vars, formula >>

\* if not req_file.exists(): print error; sys.exit(1)
MainNotFound ==
    /\ pc = "start"
    /\ Len(argv) >= 2
    /\ fkind = "absent"
    /\ stdout' = Append(stdout, [ kind |-> "error", text |-> NotFoundMessage(argv[2]) ])
    /\ Exit(1)
    /\ UNCHANGED << input_vars, parse_vars, main_vars, formula >>

\* The three optional arguments, then the call of parse_requirements.
MainArgs ==
    /\ pc = "start"
    /\ Len(argv) >= 2
    /\ fkind /= "absent"
    /\ version' = IF Len(argv) > 2 THEN Some(argv[3]) ELSE Some(DefaultVersion)
    /\ url' = IF Len(argv) > 3 THEN Some(argv[4]) ELSE None
    /\ sha256' = IF Len(argv) > 4 THEN Some(argv[5]) ELSE None
    /\ SetLocals(ParseStart)
    /\ idx' = 1
    /\ pc' = "open"
    /\ UNCHANGED << input_vars, formula, stdout, exit_code >>

\* with open(req_file) as f: on a path that exists and opens.
ParseOpen ==
    /\ pc = "open"
    /\ fkind = "file"
    /\ pc' = "loop"
    /\ UNCHANGED << input_vars, parse_vars, main_vars, formula, stdout, exit_code >>

\* open() raises OSError on a path that exists and cannot be read (a directory,
\* no permission): the uncaught exception ends the run with status 1 and a
\* traceback on standard error.
ParseOpenFails ==
    /\ pc = "open"
    /\ fkind = "unreadable"
    /\ Exit(1)
    /\ UNCHANGED << input_vars, parse_vars, main_vars, formula, stdout >>

\* One iteration of the loop over the lines.
ParseLine ==
    /\ pc = "loop"
    /\ idx <= Len(lines)
    /\ SetLocals(ParseStep(Locals, lines[idx]))
    /\ idx' = idx + 1
    /\ UNCHANGED << input_vars, pc, main_vars, formula, stdout, exit_code >>

\* After the last line: the final flush, and parse_requirements returns.
ParseReturn ==
    /\ pc = "loop"
    /\ idx > Len(lines)
    /\ SetLocals(ParseEnd(Locals))
    /\ pc' = "render"
    /\ UNCHANGED << input_vars, idx, main_vars, formula, stdout, exit_code >>

\* formula = generate_formula(version, packages, url, sha256)
Generate ==
    /\ pc = "render"
    /\ formula' = Some(GenerateFormula(version[1], packages, url, sha256))
    /\ pc' = "print"
    /\ UNCHANGED << input_vars, parse_vars, main_vars, stdout, exit_code >>

\* print(formula), and the script ends.
PrintFormula ==
    /\ pc = "print"
    /\ stdout' = Append(stdout, [ kind |-> "formula", text |-> formula[1] ])
    /\ Exit(0)
    /\ UNCHANGED << input_vars, parse_vars, main_vars, formula >>

Next ==
    \/ MainUsage
    \/ MainNotFound
    \/ MainArgs
    \/ ParseOpen
    \/ ParseOpenFails
    \/ ParseLine
    \/ ParseReturn
    \/ Generate
    \/ PrintFormula

Spec == Init /\ [][Next]_vars
SpecParse == InitParse /\ [][Next]_vars

\* ===================================================================
\* Properties
\* ===================================================================
\* The run is past parse_requirements, which returned normally.
Parsed == pc \in { "render", "print" } \/ (pc = "done" /\ exit_code = Some(0))
\* generate_formula has returned.
Rendered == formula /= None
Blocks == formula[1].resources

\* The lockfile format, read off the file and not off the parser: which lines
\* are declarations and hash lines, and what they declare.
DeclaredNames == { NameA, NameB, NameC, NameUpperB, NameSelf }
Endings == { EndOfLine, SpaceContinuation, DirectContinuation }
Digests == { DigestA, DigestB }
IsDeclarationEnding(line, ends) ==
    \E n \in DeclaredNames, e \in ends : line = Declaration(n, PinnedVersion, e)
IsDeclaration(line) == IsDeclarationEnding(line, Endings)
DeclaredName(line) ==
    CHOOSE n \in DeclaredNames : \E e \in Endings : line = Declaration(n, PinnedVersion, e)
IsHashLine(line) ==
    \E d \in Digests, e \in { EndOfLine, SpaceContinuation } : line = HashLine(d, e)
HashDigest(line) ==
    CHOOSE d \in Digests : \E e \in { EndOfLine, SpaceContinuation } : line = HashLine(d, e)

\* The digests of the hash lines between declaration line i and the next
\* declaration line (or the end of the file), in order.
RECURSIVE DigestsFrom(_, _)
DigestsFrom(ls, k) ==
    IF k > Len(ls) \/ IsDeclaration(ls[k]) THEN << >>
    ELSE IF IsHashLine(ls[k]) THEN << HashDigest(ls[k]) >> \o DigestsFrom(ls, k + 1)
    ELSE DigestsFrom(ls, k + 1)
DeclaredHashes(ls, i) == DigestsFrom(ls, i + 1)
DeclarationLines(ls) == { i \in 1..Len(ls) : IsDeclaration(ls[i]) }

\* Python's order on strings, stated by the first position where two differ.
NameBefore(a, b) ==
    \E k \in 1..(Len(b)) :
        /\ \A m \in 1..(k - 1) : m <= Len(a) /\ a[m] = b[m]
        /\ \/ k = Len(a) + 1
           \/ k <= Len(a) /\ Code(a[k]) < Code(b[k])

\* The record is the tool's own: its name lower-cased, hyphens as underscores.
IsSelfName(name) == ReplaceHyphen(Lower(name)) = ToolName
BlocksNamed(name) == { k \in 1..Len(Blocks) : Blocks[k].name = name }

\* -------------------------------------------------------------------
\* C1: for a lockfile of N declarations with pairwise distinct names, each
\* followed by zero or more indented hash lines with or without a trailing
\* continuation marker, parse_requirements returns exactly N entries, and each
\* entry's tuple is, in order, the digests of the hash lines between its
\* declaration and the next one (or the end of the file).
C1Lockfile(ls) ==
    /\ \A i \in 1..Len(ls) :
         \/ IsDeclarationEnding(ls[i], { EndOfLine, SpaceContinuation })
         \/ IsHashLine(ls[i])
    /\ ls /= << >> => IsDeclaration(ls[1])
    /\ \A i, j \in DeclarationLines(ls) : i /= j => DeclaredName(ls[i]) /= DeclaredName(ls[j])
C1_EntriesAreDeclaredHashes ==
    (Parsed /\ C1Lockfile(lines)) =>
        /\ Len(packages) = Cardinality(DeclarationLines(lines))
        /\ \A i \in DeclarationLines(lines) :
             /\ HasKey(packages, DeclaredName(lines[i]))
             /\ Lookup(packages, DeclaredName(lines[i])) = DeclaredHashes(lines, i)

\* -------------------------------------------------------------------
\* C2: the digest of a hash line that comes before every declaration is in no
\* entry's tuple, whatever follows (the digest is on no other hash line).
IsOrphanHash(ls, i) ==
    /\ IsHashLine(ls[i])
    /\ \A j \in 1..(i - 1) : ~IsDeclaration(ls[j])
    /\ \A j \in 1..Len(ls) : (j /= i /\ IsHashLine(ls[j])) => HashDigest(ls[j]) /= HashDigest(ls[i])
C2_OrphanHashDropped ==
    Parsed =>
        \A i \in 1..Len(lines) : IsOrphanHash(lines, i) =>
            \A k \in 1..Len(packages) : HashDigest(lines[i]) \notin Range(packages[k].hashes)

\* -------------------------------------------------------------------
\* C3: a line the parser classifies as a package line and whose name==version
\* match fails leaves the result as it is for the file without that line.
IsUnmatchedPackageLine(raw) ==
    LET stripped == RStrip(raw)
        line == HandleContinuation(stripped)
    IN /\ stripped /= << >>
       /\ stripped[1] /= "#"
       /\ line /= EditableLine
       /\ IsPackageLine(line)
       /\ MatchPackage(line) = None
RemoveAt(ls, i) == SubSeq(ls, 1, i - 1) \o SubSeq(ls, i + 1, Len(ls))
C3_UnmatchedLineIgnored ==
    Parsed =>
        \A i \in 1..Len(lines) : IsUnmatchedPackageLine(lines[i]) =>
            packages = ParseRequirements(RemoveAt(lines, i))

\* -------------------------------------------------------------------
\* C7: a name declared more than once has a single entry, whose tuple is the
\* digests of the hash lines after its last declaration; the entry stands
\* where the name first appeared among the names.  Stated for the lockfiles
\* whose declarations end at the end of the line or with whitespace and a
\* continuation marker.
FirstDeclaration(ls, n) ==
    CHOOSE i \in DeclarationLines(ls) :
        /\ DeclaredName(ls[i]) = n
        /\ \A j \in DeclarationLines(ls) : DeclaredName(ls[j]) = n => i <= j
LastDeclaration(ls, n) ==
    CHOOSE i \in DeclarationLines(ls) :
        /\ DeclaredName(ls[i]) = n
        /\ \A j \in DeclarationLines(ls) : DeclaredName(ls[j]) = n => j <= i
NamesBefore(ls, i) == { DeclaredName(ls[j]) : j \in { k \in DeclarationLines(ls) : k < i } }
C7_LaterDeclarationOverwrites ==
    (Parsed /\ \A k \in 1..Len(lines) : ~IsDeclarationEnding(lines[k], { DirectContinuation })) =>
        \A i, j \in DeclarationLines(lines) :
            (i < j /\ DeclaredName(lines[i]) = DeclaredName(lines[j])) =>
                LET n == DeclaredName(lines[i])
                    first == FirstDeclaration(lines, n)
                    last == LastDeclaration(lines, n)
                    at == { k \in 1..Len(packages) : packages[k].name = n }
                IN /\ Cardinality(at) = 1
                   /\ Lookup(packages, n) = DeclaredHashes(lines, last)
                   /\ at = { Cardinality(NamesBefore(lines, first)) + 1 }

\* -------------------------------------------------------------------
\* C10: after the parser has read a declaration line, whatever its ending (end
\* of line, whitespace, or a continuation marker right after the version), the
\* declared name is the current package and the version it matched is the
\* declared version, whole.
C10_DeclarationRecognized ==
    (pc = "loop" /\ idx > 1 /\ IsDeclaration(lines[idx - 1])) =>
        /\ current_package = Some(DeclaredName(lines[idx - 1]))
        /\ pkg_version = Some(PinnedVersion)

\* -------------------------------------------------------------------
\* C4: the resource blocks of the output are in strictly ascending order of
\* package name (Python's order on strings), whatever the insertion order of
\* the mapping.
C4_BlocksAscending ==
    Rendered =>
        \A i, j \in 1..Len(Blocks) : i < j => NameBefore(Blocks[i].name, Blocks[j].name)
\* Two blocks were rendered from records the parser inserted in descending order.
C4_Witness ==
    /\ Rendered
    /\ \E i, j \in 1..Len(packages) :
         /\ i < j
         /\ NameBefore(packages[j].name, packages[i].name)
         /\ BlocksNamed(packages[i].name) /= {}
         /\ BlocksNamed(packages[j].name) /= {}

\* -------------------------------------------------------------------
\* C5: every entry of the mapping has exactly one resource block, except an
\* entry whose normalized name is the tool's own, which has none; every block
\* is of an entry; and a declaration of the tool's own name is still an entry
\* of the mapping the parser returned.
C5_OneBlockPerEntryExceptSelf ==
    /\ Rendered =>
         /\ \A k \in 1..Len(packages) :
              Cardinality(BlocksNamed(packages[k].name)) =
                  (IF IsSelfName(packages[k].name) THEN 0 ELSE 1)
         /\ \A b \in 1..Len(Blocks) : HasKey(packages, Blocks[b].name)
    /\ Parsed =>
         \A i \in 1..Len(lines) :
             (IsDeclarationEnding(lines[i], { EndOfLine }) /\ IsSelfName(DeclaredName(lines[i])))
                 => HasKey(packages, DeclaredName(lines[i]))
\* A mapping with the tool's own record and another record was rendered.
C5_Witness ==
    /\ Rendered
    /\ \E k \in 1..Len(packages) : IsSelfName(packages[k].name)
    /\ Len(Blocks) >= 1

\* -------------------------------------------------------------------
\* C6: each block's checksum is the first hash of its record's tuple when the
\* tuple is not empty and the placeholder token when it is; it is never the
\* empty string.
C6_ChecksumFirstHashOrPlaceholder ==
    Rendered =>
        \A b \in 1..Len(Blocks) :
            LET hashes == Lookup(packages, Blocks[b].name)
            IN /\ hashes /= << >> => Blocks[b].sha256 = hashes[1]
               /\ hashes = << >> => Blocks[b].sha256 = Placeholder
               /\ Blocks[b].sha256 /= EmptyStr
\* One rendered record has two different hashes and another has none.
C6_Witness ==
    /\ Rendered
    /\ \E b, c \in 1..Len(Blocks) :
         /\ Len(Lookup(packages, Blocks[b].name)) >= 2
         /\ Lookup(packages, Blocks[b].name)[1] /= Lookup(packages, Blocks[b].name)[2]
         /\ Lookup(packages, Blocks[c].name) = << >>

\* -------------------------------------------------------------------
\* C8 as stated: the header's URL is the override URL when the command line
\* gives one and the default URL of the version otherwise; the header's
\* checksum is the override checksum when the command line gives one and the
\* placeholder otherwise.
VersionArg == IF Len(argv) > 2 THEN argv[3] ELSE DefaultVersion
C8_HeaderUsesGivenOverrides ==
    Rendered =>
        /\ formula[1].url = (IF Len(argv) > 3 THEN argv[4] ELSE DefaultUrl(VersionArg))
        /\ formula[1].sha256 = (IF Len(argv) > 4 THEN argv[5] ELSE PlaceholderSha)
\* C8 as amended: an override counts when it is given and is not the empty
\* string; each of the two is chosen by its own argument alone.
C8_HeaderUsesNonEmptyOverrides ==
    Rendered =>
        /\ formula[1].url =
             (IF Len(argv) > 3 /\ argv[4] /= EmptyStr THEN argv[4] ELSE DefaultUrl(VersionArg))
        /\ formula[1].sha256 =
             (IF Len(argv) > 4 /\ argv[5] /= EmptyStr THEN argv[5] ELSE PlaceholderSha)
\* A formula was rendered with an override checksum and the default URL, for a
\* mapping that is not empty.
C8_Witness ==
    /\ Rendered
    /\ Len(argv) > 4
    /\ argv[5] = OverrideSha
    /\ formula[1].url = DefaultUrl(VersionArg)
    /\ formula[1].sha256 = OverrideSha
    /\ packages /= << >>

\* -------------------------------------------------------------------
\* C9: a run without the lockfile argument, or whose path does not exist, never
\* parses or renders and ends with one message, no formula and a non-zero
\* status; a formula is printed, and the status is zero, only in a run with the
\* argument and an existing path, and every run on a readable file ends so.
NoParseNoRender ==
    /\ pc \in { "start", "done" }
    /\ idx = 1 /\ packages = << >> /\ current_package = None /\ current_hashes = << >>
    /\ formula = None
PrintedFormula == \E k \in 1..Len(stdout) : stdout[k].kind = "formula"
C9_EntryPointAborts ==
    /\ (Len(argv) < 2 \/ fkind = "absent") =>
         /\ NoParseNoRender
         /\ pc = "done" =>
              /\ exit_code /= None /\ exit_code[1] /= 0
              /\ Len(stdout) = 1
              /\ stdout[1].kind = (IF Len(argv) < 2 THEN "usage" ELSE "error")
    /\ (PrintedFormula \/ exit_code = Some(0) \/ pc \in { "loop", "render", "print" }) =>
         (Len(argv) >= 2 /\ fkind /= "absent")
    /\ (pc = "done" /\ Len(argv) >= 2 /\ fkind = "file") =>
         /\ exit_code = Some(0)
         /\ stdout = << [ kind |-> "formula", text |-> formula[1] ] >>
\* A run whose path does not exist has ended.
C9_Witness ==
    /\ pc = "done"
    /\ Len(argv) >= 2
    /\ fkind = "absent"
    /\ exit_code = Some(1)

====
